---- MODULE Spec2Model ----
(***************************************************************************)
(* A model of the WASI preview1 adapter of the runtime                     *)
(* (src/src/runtime/os_wasip1.go): the little-endian wire primitives, the  *)
(* aligned allocation helper, process bootstrap (goenvs), the clock        *)
(* wrappers (walltime1, nanotime1), usleep, readRandom and write1.         *)
(*                                                                         *)
(* Fixed-width unsigned integers are kept as little-endian sequences of    *)
(* 16-bit limbs (uint16: 1 limb, uint32: 2 limbs, uint64: 4 limbs), so     *)
(* that 32- and 64-bit arithmetic keeps its width.  Byte buffers are       *)
(* sequences of 0..255; Go index i is TLA+ index i + 1.                    *)
(***************************************************************************)
EXTENDS Integers, Sequences, FiniteSets, TLC

VARIABLES
    wire,       \* harness of the wire primitives: buffer, position, value
    al,         \* NewAligned: shape, allocator and the candidates so far
    host,       \* the table the host serves in the current goenvs pass
    g,          \* goenvs: position and locals (argc, argv, argvBuf, ...)
    argslice,   \* the decoded argument table
    envs,       \* the decoded environment table
    calls,      \* the host calls of the wrapper invocation under way
    dead,       \* "" while the process lives, else why it was aborted
    tmpStackAddr, \* the address of the global tmpStack
    tmpStack,   \* the bytes of tmpStack a timestamp can occupy
    fl,         \* each logical flow's position in the wrapper it is in
    running,    \* the flow that holds the execution context, 0 for none
    ret         \* what the last wrapper returned to its caller

vars == <<wire, al, host, g, argslice, envs, calls, dead,
          tmpStackAddr, tmpStack, fl, running, ret>>

runVars == <<tmpStackAddr, tmpStack, fl, running, ret>>

harnessVars == <<wire, al>>
bootVars == <<host, g, argslice, envs>>

----------------------------------------------------------------------------
(* Fixed-width words *)

\* The n-limb word of all zero limbs.
Zero(n) == [i \in 1..n |-> 0]

\* uintN(x) of a narrower unsigned word x: zero extension to n limbs.
Extend(v, n) == [i \in 1..n |-> IF i <= Len(v) THEN v[i] ELSE 0]

\* uintN(x) of a wider word x: the low n limbs.
Truncate(v, n) == [i \in 1..n |-> v[i]]

RECURSIVE BitOr(_, _)
\* a | b on one limb.
BitOr(a, b) ==
    IF a = 0 THEN b
    ELSE IF b = 0 THEN a
    ELSE (IF a % 2 = 1 \/ b % 2 = 1 THEN 1 ELSE 0) + 2 * BitOr(a \div 2, b \div 2)

\* a | b on words of the same width.
Or(a, b) == [i \in 1..Len(a) |-> BitOr(a[i], b[i])]

\* byte(v >> s), s a multiple of 8: bits s..s+7 of v.
ByteShr(v, s) ==
    (v[(s \div 16) + 1] \div (IF s % 16 = 0 THEN 1 ELSE 256)) % 256

\* uintN(x) << s for a byte x, s a multiple of 8, as an n-limb word.
ShlByte(x, s, n) ==
    [i \in 1..n |-> IF i = (s \div 16) + 1
                    THEN (x * (IF s % 16 = 0 THEN 1 ELSE 256)) % 65536
                    ELSE 0]

----------------------------------------------------------------------------
(* littleEndian.  A Go slice argument b is given as the underlying buffer   *)
(* and the offset of b[0] in it.  An index out of range panics; the panic   *)
(* is the value Panic.                                                      *)

Panic == <<-1>>

\* The bounds check `_ = b[k]`.
InRange(b, off, k) == off >= 0 /\ off + k < Len(b)

Uint16(b, off) ==
    IF ~InRange(b, off, 1) THEN Panic
    ELSE Or(ShlByte(b[off + 1], 0, 1), ShlByte(b[off + 2], 8, 1))

PutUint16(b, off, v) ==
    IF ~InRange(b, off, 1) THEN Panic
    ELSE [b EXCEPT ![off + 1] = ByteShr(v, 0),
                   ![off + 2] = ByteShr(v, 8)]

Uint32(b, off) ==
    IF ~InRange(b, off, 3) THEN Panic
    ELSE Or(Or(Or(ShlByte(b[off + 1], 0, 2), ShlByte(b[off + 2], 8, 2)),
               ShlByte(b[off + 3], 16, 2)), ShlByte(b[off + 4], 24, 2))

PutUint32Swapped(b, off, v) ==
    IF ~InRange(b, off, 3) THEN Panic
    ELSE [b EXCEPT ![off + 1] = ByteShr(v, 0),
                   ![off + 2] = ByteShr(v, 8),
                   ![off + 3] = ByteShr(v, 24),
                   ![off + 4] = ByteShr(v, 16)]

PutUint32(b, off, v) ==
    IF ~InRange(b, off, 3) THEN Panic
    ELSE [b EXCEPT ![off + 1] = ByteShr(v, 0),
                   ![off + 2] = ByteShr(v, 8),
                   ![off + 3] = ByteShr(v, 16),
                   ![off + 4] = ByteShr(v, 24)]

Uint64(b, off) ==
    IF ~InRange(b, off, 7) THEN Panic
    ELSE Or(Or(Or(Or(Or(Or(Or(ShlByte(b[off + 1], 0, 4), ShlByte(b[off + 2], 8, 4)),
                           ShlByte(b[off + 3], 16, 4)), ShlByte(b[off + 4], 24, 4)),
                     ShlByte(b[off + 5], 32, 4)), ShlByte(b[off + 6], 40, 4)),
               ShlByte(b[off + 7], 48, 4)), ShlByte(b[off + 8], 56, 4))

PutUint64(b, off, v) ==
    IF ~InRange(b, off, 7) THEN Panic
    ELSE [b EXCEPT ![off + 1] = ByteShr(v, 0),
                   ![off + 2] = ByteShr(v, 8),
                   ![off + 3] = ByteShr(v, 16),
                   ![off + 4] = ByteShr(v, 24),
                   ![off + 5] = ByteShr(v, 32),
                   ![off + 6] = ByteShr(v, 40),
                   ![off + 7] = ByteShr(v, 48),
                   ![off + 8] = ByteShr(v, 56)]

----------------------------------------------------------------------------
(* The wire primitives applied to drawn inputs: a buffer, a position in it, *)
(* a width and a value of that width are drawn, the value is written and    *)
(* then read back at the same position.                                     *)

\* Length of the drawn buffers.
WireBufLen == 9

\* The limbs the drawn values are made of.
LimbInputs == {0, 255, 32769, 43981, 65535}

\* The drawn buffers: two fills and one with every byte different.
WireBuffers ==
    {[i \in 1..WireBufLen |-> f] : f \in {0, 255}}
        \cup {[i \in 1..WireBufLen |-> 16 * i + 1]}

WordInputs(n) == [1..n -> LimbInputs]

WireIdle == [pc |-> "off", w |-> 16, buf0 |-> <<>>, buf |-> <<>>, pos |-> 0,
             val |-> <<0>>, got |-> <<0>>]

WireInit ==
    wire \in {[pc |-> "start", w |-> w, buf0 |-> b, buf |-> b, pos |-> p,
               val |-> v, got |-> Zero(w \div 16)] :
                  w \in {16}, b \in WireBuffers, p \in 0..(WireBufLen - 1),
                  v \in WordInputs(1)}
        \cup {[pc |-> "start", w |-> w, buf0 |-> b, buf |-> b, pos |-> p,
               val |-> v, got |-> Zero(w \div 16)] :
                  w \in {32}, b \in WireBuffers, p \in 0..(WireBufLen - 1),
                  v \in WordInputs(2)}
        \cup {[pc |-> "start", w |-> w, buf0 |-> b, buf |-> b, pos |-> p,
               val |-> v, got |-> Zero(w \div 16)] :
                  w \in {64}, b \in WireBuffers, p \in 0..(WireBufLen - 1),
                  v \in WordInputs(4)}

\* le.PutUint<w>(buf[pos:], val)
WirePut ==
    /\ wire.pc = "start"
    /\ LET r == CASE wire.w = 16 -> PutUint16(wire.buf, wire.pos, wire.val)
                  [] wire.w = 32 -> PutUint32(wire.buf, wire.pos, wire.val)
                  [] wire.w = 64 -> PutUint64(wire.buf, wire.pos, wire.val)
       IN  IF r = Panic
           THEN wire' = [wire EXCEPT !.pc = "panic"]
           ELSE wire' = [wire EXCEPT !.pc = "put", !.buf = r]
    /\ UNCHANGED <<al, bootVars, calls, dead, runVars>>

\* le.Uint<w>(buf[pos:])
WireGet ==
    /\ wire.pc = "put"
    /\ LET r == CASE wire.w = 16 -> Uint16(wire.buf, wire.pos)
                  [] wire.w = 32 -> Uint32(wire.buf, wire.pos)
                  [] wire.w = 64 -> Uint64(wire.buf, wire.pos)
       IN  IF r = Panic
           THEN wire' = [wire EXCEPT !.pc = "panic"]
           ELSE wire' = [wire EXCEPT !.pc = "got", !.got = r]
    /\ UNCHANGED <<al, bootVars, calls, dead, runVars>>

----------------------------------------------------------------------------
(* NewAligned.  A shape T is given by its alignment (its size plays no part *)
(* in where it is placed); the allocator by its period: every address it    *)
(* returns is a multiple of the period.  The k-th allocation of a call      *)
(* lies in the k-th 64-byte chunk of the heap, at a residue modulo 8 the    *)
(* allocator picks, so the five allocations of a call are disjoint.         *)

\* The paddings of the five layouts, in the order they are tried.
Pads == <<0, 2, 4, 6, 8>>

\* The offset of field t in struct { _ [pad]byte; t T }: pad rounded up to
\* the alignment of T.
FieldOffset(pad, talign) == ((pad + talign - 1) \div talign) * talign

\* The test every candidate is put to.
Aligned4(p) == p % 4 = 0

Aligned8(p) == p % 8 = 0

\* The addresses new() can return for the k-th allocation of a call.
AllocAddrs(k, period) == {64 * k + r : r \in {x \in 0..7 : x % period = 0}}

AlIdle == [pc |-> "off", period |-> 8, talign |-> 8, cands |-> <<>>, out |-> 0]

AlInit ==
    al \in {[pc |-> "try", period |-> p, talign |-> a, cands |-> <<>>, out |-> 0] :
               p \in {1, 2, 4, 8}, a \in {1, 2, 4, 8}}

\* One layout is allocated and tested: v0, v2, v4, v6, v8 in turn.  A
\* candidate that passes is stored through t and NewAligned returns.
NewAlignedTry ==
    /\ al.pc = "try"
    /\ Len(al.cands) < Len(Pads)
    /\ \E base \in AllocAddrs(Len(al.cands) + 1, al.period) :
          LET pad  == Pads[Len(al.cands) + 1]
              addr == base + FieldOffset(pad, al.talign)
              c    == [base |-> base, pad |-> pad, t |-> addr]
          IN  IF Aligned8(addr)
              THEN al' = [al EXCEPT !.cands = Append(@, c), !.out = addr,
                                    !.pc = "ret"]
              ELSE al' = [al EXCEPT !.cands = Append(@, c)]
    /\ UNCHANGED <<wire, bootVars, calls, dead, runVars>>

\* None of the five passed: the addresses are printed and the runtime throws.
NewAlignedThrow ==
    /\ al.pc = "try"
    /\ Len(al.cands) = Len(Pads)
    /\ al' = [al EXCEPT !.pc = "throw"]
    /\ UNCHANGED <<wire, bootVars, calls, dead, runVars>>

----------------------------------------------------------------------------
(* 32- and 64-bit arithmetic on words *)

RECURSIVE AddFrom(_, _, _, _)
\* Limbs i.. of a + b + carry, the carry out of the top limb dropped.
AddFrom(a, b, i, carry) ==
    IF i > Len(a) THEN <<>>
    ELSE LET t == a[i] + b[i] + carry
         IN  <<t % 65536>> \o AddFrom(a, b, i + 1, t \div 65536)

\* a + b modulo 2^(16 * Len(a)).
Add(a, b) == AddFrom(a, b, 1, 0)

RECURSIVE SubFrom(_, _, _, _)
\* Limbs i.. of a - b - borrow, the borrow out of the top limb dropped.
SubFrom(a, b, i, borrow) ==
    IF i > Len(a) THEN <<>>
    ELSE LET t == a[i] - b[i] - borrow
         IN  <<(t + 65536) % 65536>> \o SubFrom(a, b, i + 1, IF t < 0 THEN 1 ELSE 0)

\* a - b with no wrap: the difference when a >= b, else 0 (a saturating
\* subtraction, which the code does not do).
SubSaturating(a, b) ==
    LET d == SubFrom(a, b, 1, 0)
        less == \E i \in 1..Len(a) :
                   /\ a[i] < b[i]
                   /\ \A j \in (i + 1)..Len(a) : a[j] = b[j]
    IN  IF less THEN Zero(Len(a)) ELSE d

\* a - b modulo 2^(16 * Len(a)).
Sub(a, b) == SubFrom(a, b, 1, 0)

\* The word of a small natural number.
Word(x, n) == [i \in 1..n |-> IF i = 1 THEN x % 65536
                              ELSE IF i = 2 THEN x \div 65536 ELSE 0]

\* A word used as an index into a modelled buffer (every modelled buffer is
\* shorter than 65536): its value when below 65536, else an index out of range.
Index(v) == IF \E i \in 2..Len(v) : v[i] # 0 THEN 65536 ELSE v[1]

----------------------------------------------------------------------------
(* The host side of args_get / environ_get.  A table is a sequence of       *)
(* strings (sequences of non-zero bytes).  The host lays the entries out    *)
(* NUL-terminated one after the other, after `lead` bytes it leaves alone.  *)

Errno == {0, 8, 28}

RECURSIVE Flat(_)
Flat(strs) ==
    IF strs = <<>> THEN <<>> ELSE Head(strs) \o <<0>> \o Flat(Tail(strs))

\* The offset of entry i in the flat buffer.
OffsetOf(tbl, i) == tbl.lead + Len(Flat(SubSeq(tbl.strs, 1, i - 1)))

\* The buffer length the host reports.
BufLenOf(tbl) == tbl.lead + Len(Flat(tbl.strs))

\* The buffer as the host leaves it (the guest allocated it zeroed).
HostBuf(tbl) == [i \in 1..tbl.lead |-> 0] \o Flat(tbl.strs)

\* The pointers the host stores: the 32-bit address of each entry.
HostPtrs(tbl, base32) ==
    [i \in 1..Len(tbl.strs) |-> Add(base32, Word(OffsetOf(tbl, i), 2))]

----------------------------------------------------------------------------
(* goenvs *)

\* throw and a panic in the runtime abort the process: nothing runs after.
Alive == dead = ""

\* The panic of indexing an empty slice at 0.
IndexPanic == "index out of range [0] with length 0"

\* The check every fatal wrapper makes of the errno a host call returns.
HostErrorIgnored(e) == FALSE

HostFailed(e) == e # 0

\* `if argc > 0`, `if environCount > 0`.
AlwaysFetch(count) == count >= 0

HasEntries(count) == count > 0

RECURSIVE ScanNul(_, _)
\* `for buf[end] != 0 { end++ }`: the index of the first NUL at or after
\* end, or Len(buf) (out of range) when there is none.
ScanNul(buf, end) ==
    IF end >= Len(buf) THEN Len(buf)
    ELSE IF buf[end + 1] = 0 THEN end
    ELSE ScanNul(buf, end + 1)

\* start := ptr - uintptr32(uintptr(unsafe.Pointer(&buf[0])))
StartNoWrap(ptr, base32) == Index(SubSaturating(ptr, base32))

StartOf(ptr, base32) == Index(Sub(ptr, base32))

\* The body of the decode loops: the strings, or a panic when an index is
\* out of range.
Decode(ptrs, buf, base32) ==
    LET start(i) == StartOf(ptrs[i], base32)
        end(i)   == ScanNul(buf, start(i))
    IN  IF \E i \in 1..Len(ptrs) : start(i) >= Len(buf) \/ end(i) >= Len(buf)
        THEN [panic |-> TRUE, strs |-> <<>>]
        ELSE [panic |-> FALSE,
              strs |-> [i \in 1..Len(ptrs) |-> SubSeq(buf, start(i) + 1, end(i))]]

\* uintptr32(uintptr(p)): the low 32 bits of a pointer.
UintPtr32(addr) == Truncate(addr, 2)

NoTable == [strs |-> <<>>, lead |-> 0, base |-> Zero(4)]

\* Before either pass the host has served nothing.
NoHost == [args |-> NoTable, environ |-> NoTable]

GInit == [pc |-> "args_sizes", count |-> 0, bufLen |-> 0, base |-> Zero(4)]

\* A host call in the log: the binding, the errno it returned, the count or
\* length it was given or reported, the pointer it was handed, the record
\* found there, and the argument of the wrapper that made it.
Call(fn, e) == [fn |-> fn, errno |-> e, count |-> 0, ptr |-> 0, sub |-> <<>>,
                arg |-> <<>>]

\* What a sizes-get step does after the host call, in both passes: throw on
\* error; else make the table, and either skip the pass (no entries) or
\* allocate the index and the buffer, whose address is `base`.
SizesGet(pass, tbl, base, e, next) ==
    /\ Alive
    /\ LET n == IF e = 0 THEN Len(tbl.strs) ELSE 0
           c == [Call(pass \o "_sizes_get", e) EXCEPT !.count = n]
       IN
       /\ calls' = Append(calls, c)
       /\ IF HostFailed(e)
          THEN /\ dead' = pass \o "_sizes_get failed"
               /\ UNCHANGED <<host, g, argslice, envs>>
          ELSE /\ dead' = dead
               /\ IF pass = "args"
                  THEN argslice' = [i \in 1..n |-> <<>>] /\ envs' = envs
                  ELSE envs' = [i \in 1..n |-> <<>>] /\ argslice' = argslice
               /\ host' = [host EXCEPT ![pass] = [strs |-> tbl.strs,
                                                   lead |-> tbl.lead,
                                                   base |-> base]]
               /\ IF HasEntries(n)
                  THEN g' = [pc |-> pass \o "_get", count |-> n,
                             bufLen |-> BufLenOf(tbl), base |-> base]
                  ELSE g' = [GInit EXCEPT !.pc = next]

\* What a get step does: the host call on &argv[0], &argvBuf[0], throw on
\* error, else the decode loop.
Get(pass, e, next) ==
    /\ Alive
    /\ IF g.count = 0 \/ g.bufLen = 0
       THEN \* &argv[0] or &argvBuf[0] of an empty slice
            /\ dead' = IndexPanic
            /\ UNCHANGED <<host, g, argslice, envs, calls>>
       ELSE
       /\ calls' = Append(calls, [Call(pass \o "_get", e) EXCEPT !.count = g.count])
       /\ IF HostFailed(e)
          THEN /\ dead' = pass \o "_get failed"
               /\ UNCHANGED <<host, g, argslice, envs>>
          ELSE LET base32 == UintPtr32(g.base)
                   t == Decode(HostPtrs(host[pass], base32), HostBuf(host[pass]),
                               base32)
               IN  IF t.panic
                   THEN /\ dead' = IndexPanic
                        /\ UNCHANGED <<host, g, argslice, envs>>
                   ELSE /\ dead' = dead
                        /\ host' = host
                        /\ g' = [GInit EXCEPT !.pc = next]
                        /\ IF pass = "args"
                           THEN argslice' = t.strs /\ envs' = envs
                           ELSE envs' = t.strs /\ argslice' = argslice

\* Lines 216-225: args_sizes_get and what follows it up to args_get.
ArgsSizesGet(tbl, base, e) ==
    /\ g.pc = "args_sizes"
    /\ SizesGet("args", tbl, base, e, "environ_sizes")
    /\ UNCHANGED <<harnessVars, runVars>>

\* Lines 226-238: args_get and the decode loop.
ArgsGet(e) ==
    /\ g.pc = "args_get"
    /\ Get("args", e, "environ_sizes")
    /\ UNCHANGED <<harnessVars, runVars>>

\* Lines 241-250.
EnvironSizesGet(tbl, base, e) ==
    /\ g.pc = "environ_sizes"
    /\ SizesGet("environ", tbl, base, e, "done")
    /\ UNCHANGED <<harnessVars, runVars>>

\* Lines 251-263.
EnvironGet(e) ==
    /\ g.pc = "environ_get"
    /\ Get("environ", e, "done")
    /\ UNCHANGED <<harnessVars, runVars>>

----------------------------------------------------------------------------
(* 64-bit multiplication and division by a small number *)

RECURSIVE MulFrom(_, _, _, _)
\* Limbs i.. of v * m + carry, for m below 32768, the carry out dropped.
MulFrom(v, m, i, carry) ==
    IF i > Len(v) THEN <<>>
    ELSE LET t == v[i] * m + carry
         IN  <<t % 65536>> \o MulFrom(v, m, i + 1, t \div 65536)

\* v * m modulo 2^(16 * Len(v)).
Mul(v, m) == MulFrom(v, m, 1, 0)

\* Bit i of v.
Bit(v, i) == (v[(i \div 16) + 1] \div (2 ^ (i % 16))) % 2

RECURSIVE DivBits(_, _, _, _, _)
\* Long division, one bit at a time from bit i - 1 down, for d up to 2^30.
DivBits(v, d, i, rem, q) ==
    IF i = 0 THEN [q |-> q, r |-> Word(rem, Len(v))]
    ELSE LET t  == 2 * rem + Bit(v, i - 1)
             qb == IF t >= d THEN 1 ELSE 0
         IN  DivBits(v, d, i - 1, t - qb * d,
                     [q EXCEPT ![((i - 1) \div 16) + 1] = @ + qb * (2 ^ ((i - 1) % 16))])

\* v / d and v % d.
DivMod(v, d) == DivBits(v, d, 16 * Len(v), 0, Zero(Len(v)))

----------------------------------------------------------------------------
(* The clock wrappers and the scratch slot *)

ClockRealtime == 0
ClockMonotonic == 1
EventtypeClock == 0
TmpStackSize == 1024
Billion == 1000000000

\* The bytes of tmpStack that are modelled: those tmpUint64_1 can address.
TmpStackPrefix == 8 + 8

tmpUint64_1(addr) ==
    IF addr % 8 # 0 THEN addr + (8 - (addr % 8)) ELSE addr

\* A flow runs only while no other flow holds the execution context: there
\* is one context, and a flow inside a wrapper keeps it until it returns.
ScheduledAlways(f) == TRUE

Scheduled(f) == running \in {0, f}

\* The number of logical flows.
NumFlows == 2

Flows == 1..NumFlows

NoRet == [f |-> 0, op |-> "", a |-> <<>>, b |-> <<>>, wrote |-> <<>>]

FlIdle == [pc |-> "idle", op |-> "", ptr |-> 0, wrote |-> <<>>]

\* int64(time / 1000000000), int32(time % 1000000000)
WallSplitNarrowSec(time) ==
    LET dm == DivMod(time, Billion)
    IN  [sec |-> Extend(Truncate(dm.q, 2), 4), nsec |-> Truncate(dm.r, 2)]

WallSplit(time) ==
    LET dm == DivMod(time, Billion)
    IN  [sec |-> dm.q, nsec |-> Truncate(dm.r, 2)]

\* timePtr := tmpUint64_1(); clock_time_get(id, 0, timePtr), and the check
\* of the errno.  On success the host has stored ns at timePtr.
ClockTimeGet(f, op, id, ns, e) ==
    /\ Alive
    /\ g.pc = "done"
    /\ fl[f].pc = "idle"
    /\ Scheduled(f)
    /\ LET timePtr == tmpUint64_1(tmpStackAddr)
       IN
       /\ calls' = <<[Call("clock_time_get", e) EXCEPT !.count = id, !.ptr = timePtr]>>
       /\ ret' = NoRet
       /\ tmpStack' = IF e = 0
                      THEN PutUint64(tmpStack, timePtr - tmpStackAddr, ns)
                      ELSE tmpStack
       /\ IF HostFailed(e)
          THEN /\ dead' = "clock_time_get failed"
               /\ UNCHANGED <<fl, running>>
          ELSE /\ dead' = dead
               /\ fl' = [fl EXCEPT ![f] = [pc |-> "read", op |-> op,
                                           ptr |-> timePtr, wrote |-> ns]]
               /\ running' = f
    /\ UNCHANGED <<harnessVars, bootVars, tmpStackAddr>>

\* Lines 272-276.
Walltime1Call(f, ns, e) == ClockTimeGet(f, "walltime1", ClockRealtime, ns, e)

\* Lines 284-288.
Nanotime1Call(f, ns, e) == ClockTimeGet(f, "nanotime1", ClockMonotonic, ns, e)

\* Lines 278-279: time := *timePtr and the return.
Walltime1Return(f) ==
    /\ Alive
    /\ fl[f].pc = "read" /\ fl[f].op = "walltime1"
    /\ Scheduled(f)
    /\ LET time == Uint64(tmpStack, fl[f].ptr - tmpStackAddr)
           r    == WallSplit(time)
       IN  ret' = [f |-> f, op |-> "walltime1", a |-> r.sec, b |-> r.nsec,
                   wrote |-> fl[f].wrote]
    /\ fl' = [fl EXCEPT ![f] = FlIdle]
    /\ running' = 0
    /\ UNCHANGED <<harnessVars, bootVars, calls, dead, tmpStackAddr, tmpStack>>

\* Line 290: return int64(*timePtr).
Nanotime1Return(f) ==
    /\ Alive
    /\ fl[f].pc = "read" /\ fl[f].op = "nanotime1"
    /\ Scheduled(f)
    /\ ret' = [f |-> f, op |-> "nanotime1",
               a |-> Uint64(tmpStack, fl[f].ptr - tmpStackAddr), b |-> <<>>,
               wrote |-> fl[f].wrote]
    /\ fl' = [fl EXCEPT ![f] = FlIdle]
    /\ running' = 0
    /\ UNCHANGED <<harnessVars, bootVars, calls, dead, tmpStackAddr, tmpStack>>

----------------------------------------------------------------------------
(* usleep *)

UsleepBufSize == 128
SubscriptionSize == 48

\* Where the body of a subscription starts: after the 64-bit userdata and
\* the 64-bit slot of the tag.
BodyOffset == 16

\* u.setBody(tag): the tag is stored after the userdata; the body follows.
SetBody(sub, tag) == PutUint64(sub, 8, tag)

\* subscription.setClock
SetClock(sub, cid, timeout, prec, flags) ==
    LET b0 == SetBody(sub, Word(EventtypeClock, 4))
        b1 == PutUint32(b0, BodyOffset + 0, cid)
        b2 == PutUint64(b1, BodyOffset + 8, timeout)
        b3 == PutUint64(b2, BodyOffset + 16, prec)
    IN  PutUint16(b3, BodyOffset + 24, flags)

\* timestamp(usec) * 1e3
UsleepTimeout32(usec) == Extend(Mul(usec, 1000), 4)

UsleepTimeout(usec) == Mul(Extend(usec, 4), 1000)

\* Lines 190-194: where the slice starts in buf.
UsleepSkip(bufAddr) == IF bufAddr % 8 # 0 THEN 4 ELSE 0

\* usleep(usec), buf being at bufAddr on the stack.
Usleep(f, usec, bufAddr, e) ==
    /\ Alive
    /\ g.pc = "done"
    /\ fl[f].pc = "idle"
    /\ Scheduled(f)
    /\ LET skip == UsleepSkip(bufAddr)
           in   == SetClock([i \in 1..SubscriptionSize |-> 0],
                            Word(ClockMonotonic, 2), UsleepTimeout(usec),
                            Word(1000, 4), Word(0, 1))
       IN  calls' = <<[Call("poll_oneoff", e) EXCEPT
                          !.count = 1, !.ptr = bufAddr + skip, !.sub = in,
                          !.arg = [usec |-> usec, buf |-> bufAddr,
                                   out |-> bufAddr + skip + SubscriptionSize]]>>
    /\ IF HostFailed(e)
       THEN dead' = "wasi_snapshot_preview1.poll_oneoff" /\ ret' = NoRet
       ELSE dead' = dead /\ ret' = [NoRet EXCEPT !.f = f, !.op = "usleep"]
    /\ UNCHANGED <<harnessVars, bootVars, tmpStackAddr, tmpStack, fl, running>>

----------------------------------------------------------------------------
(* readRandom and write1 *)

\* readRandom(r) for a buffer of n bytes.
ReadRandom(f, n, e) ==
    /\ Alive
    /\ g.pc = "done"
    /\ fl[f].pc = "idle"
    /\ Scheduled(f)
    /\ IF n = 0
       THEN \* &r[0] of an empty slice
            /\ dead' = IndexPanic
            /\ calls' = <<>>
            /\ ret' = NoRet
       ELSE /\ dead' = dead
            /\ calls' = <<[Call("random_get", e) EXCEPT !.count = n, !.arg = n]>>
            /\ ret' = [NoRet EXCEPT !.f = f, !.op = "readRandom",
                                    !.a = Word(IF e # 0 THEN 0 ELSE n, 2),
                                    !.wrote = n]
    /\ UNCHANGED <<harnessVars, bootVars, tmpStackAddr, tmpStack, fl, running>>

\* write1(fd, p, n); the host reports nwritten bytes written.
Write1(f, n, nwritten, e) ==
    /\ Alive
    /\ g.pc = "done"
    /\ fl[f].pc = "idle"
    /\ Scheduled(f)
    /\ calls' = <<[Call("fd_write", e) EXCEPT !.count = 1, !.arg = n]>>
    /\ IF HostFailed(e)
       THEN dead' = "fd_write failed" /\ ret' = NoRet
       ELSE dead' = dead /\ ret' = [NoRet EXCEPT !.f = f, !.op = "write1",
                                                 !.a = Word(nwritten, 2)]
    /\ UNCHANGED <<harnessVars, bootVars, tmpStackAddr, tmpStack, fl, running>>

----------------------------------------------------------------------------
(* Bootstrap on drawn host tables *)

\* The most entries a drawn table has, and the longest entry.
MaxEntries == 2
MaxStrLen == 2

\* The entry of length n starting with byte c: c, c+1, ...
Str(n, c) == [i \in 1..n |-> c + i - 1]

Strings == {Str(n, 97) : n \in 0..MaxStrLen}

\* The drawn tables.
Tables == UNION {[1..n -> Strings] : n \in 0..MaxEntries}

\* Where the flat buffer is allocated and how many bytes the host leaves
\* before the first entry: an ordinary address; one where base + offset
\* carries into the high half; one where it wraps past 2^32.
Layouts == {[base |-> <<4096, 1, 0, 0>>, lead |-> 0],
            [base |-> <<65534, 1, 0, 0>>, lead |-> 1],
            [base |-> <<65534, 65535, 0, 0>>, lead |-> 3]}

BootIdle ==
    /\ host = NoHost
    /\ g = [GInit EXCEPT !.pc = "off"]
    /\ argslice = <<>>
    /\ envs = <<>>
    /\ calls = <<>>
    /\ dead = ""

BootStart ==
    /\ host = NoHost
    /\ g = GInit
    /\ argslice = <<>>
    /\ envs = <<>>
    /\ calls = <<>>
    /\ dead = ""

RunIdle ==
    /\ tmpStackAddr = 65536
    /\ tmpStack = [i \in 1..TmpStackPrefix |-> 0]
    /\ fl = [f \in Flows |-> FlIdle]
    /\ running = 0
    /\ ret = NoRet

InitBoot == BootStart /\ wire = WireIdle /\ al = AlIdle /\ RunIdle

NextBoot ==
    \/ \E strs \in Tables, lay \in Layouts, e \in Errno :
          ArgsSizesGet([strs |-> strs, lead |-> lay.lead], lay.base, e)
    \/ \E e \in Errno : ArgsGet(e)
    \/ \E strs \in Tables, lay \in Layouts, e \in Errno :
          EnvironSizesGet([strs |-> strs, lead |-> lay.lead], lay.base, e)
    \/ \E e \in Errno : EnvironGet(e)

SpecBoot == InitBoot /\ [][NextBoot]_vars

InitAlign == AlInit /\ wire = WireIdle /\ BootIdle /\ RunIdle

NextAlign == NewAlignedTry \/ NewAlignedThrow

SpecAlign == InitAlign /\ [][NextAlign]_vars

InitWire == WireInit /\ al = AlIdle /\ BootIdle /\ RunIdle

NextWire == WirePut \/ WireGet

SpecWire == InitWire /\ [][NextWire]_vars

----------------------------------------------------------------------------
(* The runtime: goenvs at start, then the flows call the wrappers *)

\* The longest buffer handed to readRandom and to write1.
MaxLen == 2

\* The table the host serves to the runtime as a whole, and where its
\* buffer is allocated.
MainTables == {[strs |-> <<Str(1, 97)>>, lead |-> 0]}

MainBase == <<4096, 1, 0, 0>>

\* Timestamps: 0, 999_999_999, 1_000_000_000, 1_500_000_001, 2^32 * 10^9,
\* 10^18, 2^63 - 1, 2^63 and 2^64 - 1.
NsInputs == {<<0, 0, 0, 0>>, <<51711, 15258, 0, 0>>, <<51712, 15258, 0, 0>>,
             <<12033, 22888, 0, 0>>, <<0, 0, 51712, 15258>>,
             <<0, 42852, 46771, 3552>>, <<65535, 65535, 65535, 32767>>,
             <<0, 0, 0, 32768>>, <<65535, 65535, 65535, 65535>>}

\* Microseconds: 0, 1, 2000, 65536, 4_294_967 and 4_294_968 (around the
\* point where usec * 1000 leaves 32 bits), 2^31 and 2^32 - 1.
UsecInputs == {<<0, 0>>, <<1, 0>>, <<2000, 0>>, <<0, 1>>, <<35127, 65>>,
               <<35128, 65>>, <<0, 32768>>, <<65535, 65535>>}

\* Addresses of tmpStack and of usleep's buf: every residue modulo 8.
TmpStackAddrs == {65536 + r : r \in 0..7}
BufAddrs == {8192 + r : r \in 0..7}

Init ==
    /\ BootStart
    /\ wire = WireIdle
    /\ al = AlIdle
    /\ tmpStackAddr \in TmpStackAddrs
    /\ tmpStack = [i \in 1..TmpStackPrefix |-> 0]
    /\ fl = [f \in Flows |-> FlIdle]
    /\ running = 0
    /\ ret = NoRet

Next ==
    \/ \E tbl \in MainTables, e \in Errno : ArgsSizesGet(tbl, MainBase, e)
    \/ \E e \in Errno : ArgsGet(e)
    \/ \E tbl \in MainTables, e \in Errno : EnvironSizesGet(tbl, MainBase, e)
    \/ \E e \in Errno : EnvironGet(e)
    \/ \E f \in Flows, e \in Errno : Walltime1Call(f, <<12033, 22888, 0, 0>>, e)
    \/ \E f \in Flows : Walltime1Return(f)
    \/ \E f \in Flows, e \in Errno : Nanotime1Call(f, <<2000, 0, 0, 0>>, e)
    \/ \E f \in Flows : Nanotime1Return(f)
    \/ \E f \in Flows, a \in BufAddrs, e \in Errno : Usleep(f, <<2000, 0>>, a, e)
    \/ \E f \in Flows, n \in 0..MaxLen, e \in Errno : ReadRandom(f, n, e)
    \/ \E f \in Flows, n \in 0..MaxLen, e \in Errno :
          \E nwritten \in {0, n} : Write1(f, n, nwritten, e)

Spec == Init /\ [][Next]_vars

----------------------------------------------------------------------------
(* The clock wrappers and usleep on drawn inputs, in a runtime whose        *)
(* bootstrap found no arguments and no environment.                         *)

Booted ==
    /\ host = NoHost
    /\ g = [GInit EXCEPT !.pc = "done"]
    /\ argslice = <<>>
    /\ envs = <<>>
    /\ calls = <<Call("args_sizes_get", 0), Call("environ_sizes_get", 0)>>
    /\ dead = ""
    /\ wire = WireIdle
    /\ al = AlIdle
    /\ tmpStack = [i \in 1..TmpStackPrefix |-> 0]
    /\ fl = [f \in Flows |-> FlIdle]
    /\ running = 0
    /\ ret = NoRet

InitTime == Booted /\ tmpStackAddr \in {65536, 65539}

NextTime ==
    \/ \E f \in Flows, ns \in NsInputs, e \in Errno : Walltime1Call(f, ns, e)
    \/ \E f \in Flows : Walltime1Return(f)
    \/ \E f \in Flows, ns \in NsInputs, e \in Errno : Nanotime1Call(f, ns, e)
    \/ \E f \in Flows : Nanotime1Return(f)

SpecTime == InitTime /\ [][NextTime]_vars

InitSleep == Booted /\ tmpStackAddr = 65536

NextSleep ==
    \E f \in Flows, usec \in UsecInputs, a \in BufAddrs, e \in Errno :
        Usleep(f, usec, a, e)

SpecSleep == InitSleep /\ [][NextSleep]_vars

----------------------------------------------------------------------------
\* C7 as stated: with an allocator whose addresses are multiples of a period
\* dividing 8 (1, 2, 4 or 8), NewAligned ends by storing an 8-byte aligned
\* address, the first aligned one of its candidates.
AlignedForEveryPeriod ==
    al.pc \in {"ret", "throw"} =>
        /\ al.pc = "ret"
        /\ al.out % 8 = 0
        /\ al.out = al.cands[Len(al.cands)].t
        /\ \A j \in 1..(Len(al.cands) - 1) : al.cands[j].t % 8 # 0

\* C7, amended: whenever NewAligned returns, the address it stored is a
\* multiple of 8 and is the first of the candidates (paddings 0, 2, 4, 6, 8
\* in that order) that is; it throws only after all five candidates were
\* tried and none was a multiple of 8; with period 8 it never throws.
FirstAlignedOrThrow ==
    /\ \A j \in 1..Len(al.cands) :
          /\ al.cands[j].pad = 2 * (j - 1)
          /\ al.cands[j].t >= al.cands[j].base + al.cands[j].pad
          /\ al.cands[j].t % al.talign = al.cands[j].base % al.talign
    /\ al.pc = "ret" =>
          /\ al.out % 8 = 0
          /\ al.out = al.cands[Len(al.cands)].t
          /\ \A j \in 1..(Len(al.cands) - 1) : al.cands[j].t % 8 # 0
    /\ al.pc = "try" => \A j \in 1..Len(al.cands) : al.cands[j].t % 8 # 0
    /\ al.pc = "throw" =>
          /\ Len(al.cands) = 5
          /\ \A j \in 1..5 : al.cands[j].t % 8 # 0
          /\ al.period # 8

\* A return through the third layout (padding 4), after two failures.
FirstAlignedWitness ==
    /\ al.pc = "ret"
    /\ al.period = 4
    /\ Len(al.cands) = 3
    /\ al.out = al.cands[3].t

----------------------------------------------------------------------------
\* The bytes of entry i as the host laid it out: from its offset to the
\* first NUL at or after it.
IsEntry(str, tbl, i) ==
    LET buf == HostBuf(tbl)
        k   == OffsetOf(tbl, i)
    IN  \E e \in k..(Len(buf) - 1) :
           /\ buf[e + 1] = 0
           /\ \A j \in k..(e - 1) : buf[j + 1] # 0
           /\ str = SubSeq(buf, k + 1, e)

DecodedAs(table, tbl) ==
    /\ Len(table) = Len(tbl.strs)
    /\ \A i \in 1..Len(table) : IsEntry(table[i], tbl, i)

\* C1: once a pass of goenvs is over, the decoded table has exactly the N
\* entries the host stored, element i being the bytes from entry i's offset
\* to the first NUL at or after it, in index order, for the arguments and
\* for the environment, whatever the buffer's address (also when
\* pointer - base wraps).
DecodeExact ==
    /\ (dead = "" /\ g.pc \in {"environ_sizes", "environ_get", "done"})
          => DecodedAs(argslice, host.args)
    /\ (dead = "" /\ g.pc = "done") => DecodedAs(envs, host.environ)
    /\ dead # IndexPanic

\* Both tables decoded from buffers whose pointers wrapped past 2^32.
DecodeExactWitness ==
    /\ Alive
    /\ g.pc = "done"
    /\ Len(argslice) = 2 /\ argslice[1] = <<97, 98>> /\ argslice[2] = <<97>>
    /\ host.args.base = <<65534, 65535, 0, 0>> /\ host.args.lead = 3
    /\ Len(envs) = 2 /\ envs[1] = <<>> /\ envs[2] = <<97, 98>>
    /\ host.environ.base = <<65534, 65535, 0, 0>>

\* The position of the first call of fn in the log, 0 when there is none.
FirstCall(fn) ==
    IF \E i \in 1..Len(calls) : calls[i].fn = fn
    THEN CHOOSE i \in 1..Len(calls) :
            calls[i].fn = fn /\ \A j \in 1..(i - 1) : calls[j].fn # fn
    ELSE 0

GetAfterSizes(pass, table, after) ==
    /\ \A i \in 1..Len(calls) :
          calls[i].fn = pass \o "_get" =>
              \E j \in 1..(i - 1) :
                  /\ calls[j].fn = pass \o "_sizes_get"
                  /\ calls[j].errno = 0
                  /\ calls[j].count > 0
    /\ \A j \in 1..Len(calls) :
          (calls[j].fn = pass \o "_sizes_get" /\ calls[j].errno = 0
              /\ calls[j].count = 0)
          => /\ table = <<>>
             /\ \A i \in 1..Len(calls) : calls[i].fn # pass \o "_get"
             /\ g.pc \in after
             /\ dead \in {"", "environ_sizes_get failed", "environ_get failed"}

\* C2: a get-binding is invoked only after the sizes-get binding of its
\* table returned success with a count above zero; when the count is zero
\* the table is the empty sequence, its get-binding is never invoked and
\* goenvs goes on to what follows the pass; for each table independently.
GetOnlyAfterSizes ==
    /\ GetAfterSizes("args", argslice, {"environ_sizes", "environ_get", "done"})
    /\ GetAfterSizes("environ", envs, {"done"})
    /\ Len(calls) <= 4

\* No arguments and two environment variables: environ_get was invoked,
\* args_get was not.
GetOnlyAfterSizesWitness ==
    /\ g.pc = "done"
    /\ dead = ""
    /\ argslice = <<>>
    /\ Len(envs) = 2
    /\ FirstCall("args_get") = 0
    /\ FirstCall("environ_get") = 3

----------------------------------------------------------------------------
BootCalls == {"args_sizes_get", "args_get", "environ_sizes_get", "environ_get"}

\* What the wrapper around a binding throws.
ThrowOf(fn) ==
    CASE fn = "poll_oneoff" -> "wasi_snapshot_preview1.poll_oneoff"
      [] OTHER -> fn \o " failed"

\* C3: when args_sizes_get, args_get, environ_sizes_get, environ_get,
\* clock_time_get, poll_oneoff or fd_write returns a non-zero errno, the
\* wrapper aborts the process there: the failed call is the last host call,
\* nothing is returned to the caller, no flow is left inside a wrapper, and
\* goenvs has not completed.
FatalOnHostError ==
    \A i \in 1..Len(calls) :
        (calls[i].errno # 0 /\ calls[i].fn # "random_get") =>
            /\ dead = ThrowOf(calls[i].fn)
            /\ i = Len(calls)
            /\ ret = NoRet
            /\ \A f \in Flows : fl[f].pc = "idle"
            /\ calls[i].fn \in BootCalls => g.pc # "done"
            /\ calls[i].fn \in {"args_sizes_get", "args_get"} => envs = <<>>

\* environ_get failed after the arguments were decoded: the environment
\* table was made but never filled, and the process is dead.
FatalOnHostErrorWitness ==
    /\ dead = "environ_get failed"
    /\ Len(calls) = 4
    /\ calls[4].errno = 28
    /\ argslice = <<<<97>>>>
    /\ envs = <<<<>>>>
    /\ g.pc = "environ_get"

\* C4: readRandom calls random_get over the whole buffer, returns the
\* buffer's length on success and 0 on error, and never aborts the process,
\* whatever the length of the buffer.
ReadRandomNeverAborts ==
    /\ g.pc = "done" => dead # IndexPanic
    /\ ret.op = "readRandom" =>
          /\ Len(calls) = 1
          /\ calls[1].fn = "random_get"
          /\ calls[1].count = ret.wrote
          /\ ret.a = Word(IF calls[1].errno = 0 THEN ret.wrote ELSE 0, 2)

\* C5: the subscription usleep hands to poll_oneoff, with count 1, holds in
\* its body the clock id 1 at offset 0, usec * 1000 as a 64-bit number at
\* offset 8, 1000 at offset 16 and the flags 0 at offset 24, little-endian,
\* the bytes between and after the fields left zero.
SleepRequest ==
    \A i \in 1..Len(calls) :
        calls[i].fn = "poll_oneoff" =>
            LET sub     == calls[i].sub
                timeout == Uint64(sub, BodyOffset + 8)
            IN  /\ calls[i].count = 1
                /\ Len(sub) = SubscriptionSize
                /\ Uint32(sub, BodyOffset) = <<1, 0>>
                /\ DivMod(timeout, 1000) =
                      [q |-> Extend(calls[i].arg.usec, 4), r |-> Zero(4)]
                /\ Uint64(sub, BodyOffset + 16) = <<1000, 0, 0, 0>>
                /\ Uint16(sub, BodyOffset + 24) = <<0>>
                /\ \A k \in ((BodyOffset + 4)..(BodyOffset + 7))
                              \cup ((BodyOffset + 26)..(SubscriptionSize - 1)) :
                      sub[k + 1] = 0

\* A sleep of 4_294_968 microseconds, whose nanoseconds need more than 32
\* bits: 4_294_968_000 = 2^32 + 704.
SleepRequestWitness ==
    /\ Len(calls) = 1
    /\ calls[1].fn = "poll_oneoff"
    /\ calls[1].errno = 0
    /\ calls[1].arg.usec = <<35128, 65>>
    /\ Uint64(calls[1].sub, BodyOffset + 8) = <<704, 0, 1, 0>>
    /\ ret.op = "usleep"

\* C6: whatever the addresses of tmpStack and of usleep's buf are modulo 8,
\* the pointer handed to clock_time_get and the subscription pointer handed
\* to poll_oneoff are multiples of 8, and the record lies inside its buffer.
HostPointersAligned ==
    \A i \in 1..Len(calls) :
        /\ calls[i].fn = "clock_time_get" =>
              /\ calls[i].ptr % 8 = 0
              /\ tmpStackAddr <= calls[i].ptr
              /\ calls[i].ptr + 8 <= tmpStackAddr + TmpStackSize
        /\ calls[i].fn = "poll_oneoff" =>
              /\ calls[i].ptr % 8 = 0
              /\ calls[i].arg.buf <= calls[i].ptr
              /\ calls[i].ptr + SubscriptionSize <= calls[i].arg.buf + UsleepBufSize

\* The value of a non-negative int32.
Int32Value(w) == w[1] + 65536 * w[2]

\* C8: walltime1 returns seconds and a remainder with
\* seconds * 1_000_000_000 + remainder = ns and 0 <= remainder < 1_000_000_000,
\* ns being what the host stored; neither is cut by its result width (both
\* are non-negative and the sum is exact).
WallSplitExact ==
    ret.op = "walltime1" =>
        /\ Len(ret.a) = 4 /\ ret.a[4] < 32768
        /\ Len(ret.b) = 2 /\ ret.b[2] < 32768
        /\ Int32Value(ret.b) < Billion
        /\ Add(Mul(Mul(Mul(Extend(ret.a, 6), 1000), 1000), 1000), Extend(ret.b, 6))
              = Extend(ret.wrote, 6)

\* 1_500_000_001 ns is 1 s and 500_000_001 ns.
WallSplitExactWitness ==
    /\ ret.op = "walltime1"
    /\ ret.wrote = <<12033, 22888, 0, 0>>
    /\ ret.a = <<1, 0, 0, 0>>
    /\ ret.b = <<25857, 7629>>

\* C9: from the moment a flow has handed the slot to clock_time_get until
\* it has read the timestamp back, the slot holds what the host stored for
\* that call and no other flow is inside a clock wrapper; what the call
\* returns is the value the host stored for it.
ScratchExclusive ==
    /\ \A f \in Flows :
          fl[f].pc = "read" =>
              /\ Uint64(tmpStack, fl[f].ptr - tmpStackAddr) = fl[f].wrote
              /\ \A h \in Flows \ {f} : fl[h].pc = "idle"
    /\ ret.op = "nanotime1" => ret.a = ret.wrote
    /\ ret.op = "walltime1" =>
          [sec |-> ret.a, nsec |-> ret.b] = WallSplit(ret.wrote)

\* Flow 2 is between the host call and the read of a wall-clock reading of
\* 999_999_999 ns, which the slot (at offset 5 of tmpStack) holds.
ScratchExclusiveWitness ==
    /\ fl[2].pc = "read"
    /\ fl[2].op = "walltime1"
    /\ fl[2].wrote = <<51711, 15258, 0, 0>>
    /\ tmpStackAddr = 65539
    /\ SubSeq(tmpStack, 6, 13) = <<255, 201, 154, 59, 0, 0, 0, 0>>

\* C10: for each width w in {16, 32, 64}, writing a value with PutUint<w> at a
\* position that holds at least w/8 bytes and reading the same position with
\* Uint<w> returns the value, and the write changed only those w/8 bytes.
RoundTrip ==
    /\ (wire.pc \in {"put", "got"}) =>
          /\ wire.pos + wire.w \div 8 <= Len(wire.buf0)
          /\ Len(wire.buf) = Len(wire.buf0)
          /\ \A i \in 1..Len(wire.buf) :
                (i <= wire.pos \/ i > wire.pos + wire.w \div 8)
                    => wire.buf[i] = wire.buf0[i]
    /\ wire.pc = "got" => wire.got = wire.val
    /\ wire.pc = "panic" => wire.pos + wire.w \div 8 > Len(wire.buf0)

\* A 64-bit value of eight different bytes written at position 1 of a
\* buffer of nine different bytes, and read back.
RoundTripWitness ==
    /\ wire.pc = "got"
    /\ wire.w = 64
    /\ wire.pos = 1
    /\ wire.val = <<43981, 255, 32769, 65535>>
    /\ wire.buf0[1] = 17

====
